---------------------------- MODULE Spec2Model ----------------------------
(***************************************************************************)
(* A model of the inbound carrier sales service: the FMCSA verification    *)
(* adapter (fmcsa_verify.py), the MongoDB persistence adapter              *)
(* (mongo_client.py), the API-key gated Flask service (api.py) and the     *)
(* ungated Flask service (app.py).                                         *)
(*                                                                         *)
(* Python values are modelled as follows.  A str identifier is a sequence  *)
(* of one-character strings.  JSON scalars are strings, Python's None is    *)
(* the distinguished scalar None.  A dict is a function whose domain is     *)
(* the set of keys present.  The decoded registry body is described by      *)
(* its shape (records tagged by "kind") down to the carrier dict.          *)
(***************************************************************************)
EXTENDS Integers, Sequences, FiniteSets, TLC

VARIABLES
    build,       \* behaviour of the installed libraries that the source does not pin
    environ,     \* os.environ: the configuration keys the code reads with os.getenv
    call,        \* one direct call of verify_mc_number: its arguments and its outcome
    mongo_conn,  \* the fields of the global MongoConnection instance
    database,    \* the MongoDB server: its two collections and whether it is reachable
    now,         \* the UTC clock read by datetime.now(timezone.utc)
    last         \* the last HTTP request handled and the response and effects it had

vars == <<build, environ, call, mongo_conn, database, now, last>>

---------------------------------------------------------------------------
(* Bounds of the model *)

\* longest generated carrier identifier (in characters)
MaxIdLen == 3

\* most MongoClient objects created in one run
MaxClients == 2

\* most documents inserted in the carrier-calls collection in one run
MaxCalls == 2

\* latest reading of the clock
MaxTime == 2

\* most calls of the persistence adapter one thread makes
MaxThreadCalls == 2

---------------------------------------------------------------------------
(* Python values *)

\* Python's None (os.getenv of an unset key, dict.get of an absent key)
None == "<None>"

\* bool(v) is False for None and for the empty string
Falsy(v) == v \in {None, ""}

\* dict.get(key, default)
Get(d, key, default) == IF key \in DOMAIN d THEN d[key] ELSE default

\* the outcome of a Python call: it returns a value or raises an exception
Returned(v) == [exc |-> "none", ret |-> v]
Raised(e) == [exc |-> e]

---------------------------------------------------------------------------
(* Inputs of the verification adapter *)

IdChars == {"M", "c", "-", "2", "7"}

\* str.isdigit on one character
IsDigit(c) == c \in {"0", "1", "2", "3", "4", "5", "6", "7", "8", "9"}

RECURSIVE SeqsUpTo(_, _)
SeqsUpTo(S, n) ==
    IF n = 0 THEN {<<>>}
    ELSE LET shorter == SeqsUpTo(S, n - 1)
         IN shorter \cup {Append(s, c) : s \in {t \in shorter : Len(t) = n - 1}, c \in S}

\* the identifiers of tests/test_verify_mc_number.py (test_mc_number_cleaning,
\* test_invalid_mc_number_format, test_mc_number_not_found)
TestIds ==
    { <<"M", "C", "-", "2", "2", "7", "2", "7", "1">>,
      <<"M", "C", "2", "2", "7", "2", "7", "1">>,
      <<"2", "2", "7", "2", "7", "1">>,
      <<"m", "c", "-", "2", "2", "7", "2", "7", "1">>,
      <<"I", "N", "V", "A", "L", "I", "D">>,
      <<"M", "C", "-", "0", "0", "0", "0", "0", "0">> }

Identifiers == SeqsUpTo(IdChars, MaxIdLen) \cup TestIds

\* a carrier dict of the registry: only the keys given a value are present
Carrier(sc, ato, more) ==
    LET keys == (IF sc = None THEN {} ELSE {"statusCode"})
                \cup (IF ato = None THEN {} ELSE {"allowedToOperate"})
                \cup DOMAIN more
    IN [k \in keys |-> IF k = "statusCode" THEN sc
                       ELSE IF k = "allowedToOperate" THEN ato
                       ELSE more[k]]

NoMore == [k \in {} |-> ""]

\* the remaining fields of the carrier of test_valid_mc_number_verified
KnightFields ==
    [dotNumber |-> "428823", legalName |-> "KNIGHT TRANSPORTATION INC",
     safetyRating |-> "S", bipdInsuranceRequired |-> "Y",
     cargoInsuranceRequired |-> "u", bipdInsuranceOnFile |-> "5000",
     cargoInsuranceOnFile |-> "5", totalDrivers |-> "3200",
     totalPowerUnits |-> "3200", phyStreet |-> "2002 WEST WAHALLA LANE",
     phyCity |-> "PHOENIX", phyState |-> "AZ", phyZipcode |-> "85027"]

StatusCodes == {None, "A", "I", "U", "X"}
OperateFlags == {None, "Y", "N", "X"}

Carriers ==
    {Carrier(sc, ato, NoMore) : sc \in StatusCodes, ato \in OperateFlags}
    \cup {Carrier("A", "Y", KnightFields), Carrier("I", "N", KnightFields)}

\* the value under "carrier" in the first content entry
CarrierValues ==
    {[kind |-> "missing"], [kind |-> "null"], [kind |-> "string"]}
    \cup {[kind |-> "record", fields |-> c] : c \in Carriers}

\* the first entry of the content list
Entries ==
    {[kind |-> "non_record"]}
    \cup {[kind |-> "record", carrier |-> cv] : cv \in CarrierValues}

\* the value under "content" in the body
Contents ==
    {[kind |-> "missing"], [kind |-> "null"], [kind |-> "empty_list"],
     [kind |-> "number"]}
    \cup {[kind |-> "list", first |-> e] : e \in Entries}

\* what response.json() has to decode
Bodies ==
    {[kind |-> "not_json"], [kind |-> "non_record"]}
    \cup {[kind |-> "record", content |-> c] : c \in Contents}

NoBody == [kind |-> "not_json"]

HttpErrorCodes == {403, 500}

\* what requests.get does
Upstreams ==
    {[kind |-> "timeout"], [kind |-> "conn_error", msg |-> "Connection error"]}
    \cup {[kind |-> "http", code |-> c, body |-> NoBody] : c \in {404} \cup HttpErrorCodes}
    \cup {[kind |-> "http", code |-> 200, body |-> b] : b \in Bodies}

---------------------------------------------------------------------------
(* fmcsa_verify.py *)

\* clean_mc with str.isalnum in place of str.isdigit
clean_mc_isalnum(mc_number) == SelectSeq(mc_number, LAMBDA c : c # "-")

\* clean_mc = ''.join(filter(str.isdigit, mc_number))
clean_mc(mc_number) == SelectSeq(mc_number, IsDigit)

\* derive_status with the second and third tests exchanged
derive_status_reordered(status_code, allowed_to_operate) ==
    IF status_code = "A" /\ allowed_to_operate = "Y" THEN "verified"
    ELSE IF allowed_to_operate = "N" THEN "not_authorized"
    ELSE IF status_code \in {"I", "U"} THEN "inactive"
    ELSE "unknown"

\* the if/elif chain on status_code and allowed_to_operate
derive_status(status_code, allowed_to_operate) ==
    IF status_code = "A" /\ allowed_to_operate = "Y" THEN "verified"
    ELSE IF status_code \in {"I", "U"} THEN "inactive"
    ELSE IF allowed_to_operate = "N" THEN "not_authorized"
    ELSE "unknown"

\* the dict returned for a carrier dict
carrier_result(carrier_data, mc_number) ==
    LET status_code == Get(carrier_data, "statusCode", "")
        allowed_to_operate == Get(carrier_data, "allowedToOperate", "")
    IN [status |-> derive_status(status_code, allowed_to_operate),
        mc_number |-> mc_number,
        dot_number |-> Get(carrier_data, "dotNumber", None),
        company_name |-> Get(carrier_data, "legalName", "Unknown"),
        status_code |-> status_code,
        allowed_to_operate |-> allowed_to_operate,
        safety_rating |-> Get(carrier_data, "safetyRating", None),
        bipd_insurance_required |-> (Get(carrier_data, "bipdInsuranceRequired", "") = "Y"),
        cargo_insurance_required |-> (Get(carrier_data, "cargoInsuranceRequired", "") = "Y"),
        bipd_insurance_on_file |-> Get(carrier_data, "bipdInsuranceOnFile", None),
        cargo_insurance_on_file |-> Get(carrier_data, "cargoInsuranceOnFile", None),
        total_drivers |-> Get(carrier_data, "totalDrivers", None),
        total_power_units |-> Get(carrier_data, "totalPowerUnits", None),
        physical_address |->
            [street |-> Get(carrier_data, "phyStreet", None),
             city |-> Get(carrier_data, "phyCity", None),
             state |-> Get(carrier_data, "phyState", None),
             zipcode |-> Get(carrier_data, "phyZipcode", None)]]

\* the dict of the except (KeyError, IndexError, TypeError) clause
format_error(e, data, mc_number) ==
    [status |-> "error",
     error |-> "Unexpected FMCSA response format: " \o e,
     mc_number |-> mc_number,
     raw_response |-> data]

no_carrier_data(mc_number) ==
    [status |-> "not_found",
     error |-> "No carrier data found in FMCSA response",
     mc_number |-> mc_number]

\* parse_fmcsa_response(data, mc_number).  Only KeyError, IndexError and
\* TypeError are caught: the AttributeError of calling .get on a value that
\* is not a dict leaves the function.
parse_fmcsa_response(data, mc_number) ==
    IF data.kind # "record"
    THEN Raised("AttributeError")              \* data.get on a list, str or None
    ELSE LET content == data.content IN
      CASE content.kind \in {"missing", "null", "empty_list"} ->
             Returned(no_carrier_data(mc_number))
        [] content.kind = "number" ->          \* len() of a number
             Returned(format_error("TypeError", data, mc_number))
        [] content.kind = "list" ->
             LET first == content.first IN
             IF first.kind # "record"
             THEN Returned(format_error("TypeError", data, mc_number))
             ELSE LET carrier == first.carrier IN
               CASE carrier.kind = "missing" ->
                      Returned(format_error("'carrier'", data, mc_number))
                 [] carrier.kind \in {"null", "string"} ->
                      Raised("AttributeError") \* carrier_data.get on None or a str
                 [] carrier.kind = "record" ->
                      Returned(carrier_result(carrier.fields, mc_number))

\* response.json() on a body that is not JSON raises JSONDecodeError, which is
\* a requests.exceptions.RequestException from requests 2.27 on and a plain
\* ValueError before
json_error(mc_number, b) ==
    IF b.json_error_is_request_exception
    THEN Returned([status |-> "error",
                   error |-> "Request failed: JSONDecodeError",
                   mc_number |-> mc_number])
    ELSE Raised("ValueError")

\* on_response whose 404 branch carries the identifier as given
on_response_raw_404(response, mc_number, clean, b) ==
    IF response.code = 200
    THEN IF response.body.kind = "not_json"
         THEN json_error(mc_number, b)
         ELSE parse_fmcsa_response(response.body, clean)
    ELSE IF response.code = 404
    THEN Returned([status |-> "not_found",
                   error |-> "MC number not found in FMCSA database",
                   mc_number |-> mc_number])
    ELSE Returned([status |-> "error",
                   error |-> "FMCSA API returned status " \o ToString(response.code),
                   mc_number |-> clean])

\* the branch on response.status_code
on_response(response, mc_number, clean, b) ==
    IF response.code = 200
    THEN IF response.body.kind = "not_json"
         THEN json_error(mc_number, b)
         ELSE parse_fmcsa_response(response.body, clean)
    ELSE IF response.code = 404
    THEN Returned([status |-> "not_found",
                   error |-> "MC number not found in FMCSA database",
                   mc_number |-> clean])
    ELSE Returned([status |-> "error",
                   error |-> "FMCSA API returned status " \o ToString(response.code),
                   mc_number |-> clean])

\* verify_mc_number(mc_number) with os.getenv('FMCSA_API_KEY') = api_key, when
\* requests.get behaves as upstream says
verify_mc_number(mc_number, api_key, upstream, b) ==
    LET clean == clean_mc(mc_number) IN
    IF clean = <<>>
    THEN Returned([status |-> "invalid",
                   error |-> "Invalid MC number format",
                   mc_number |-> mc_number])
    ELSE IF Falsy(api_key)
    THEN Returned([status |-> "error",
                   error |-> "FMCSA API key (webkey) is required but not found in environment variables",
                   mc_number |-> clean])
    ELSE CASE upstream.kind = "timeout" ->
                Returned([status |-> "error",
                          error |-> "FMCSA API timeout",
                          mc_number |-> mc_number])
           [] upstream.kind = "conn_error" ->
                Returned([status |-> "error",
                          error |-> "Request failed: " \o upstream.msg,
                          mc_number |-> mc_number])
           [] upstream.kind = "http" ->
                on_response(upstream, mc_number, clean, b)

\* a verify_mc_number that repeats its lookup once
registry_requests_retry(mc_number, api_key) ==
    IF clean_mc(mc_number) = <<>> \/ Falsy(api_key)
    THEN <<>>
    ELSE <<[docket_number |-> clean_mc(mc_number), webKey |-> api_key, timeout |-> 10],
           [docket_number |-> clean_mc(mc_number), webKey |-> api_key, timeout |-> 10]>>

\* the requests.get calls verify_mc_number makes: none when it returns before
\* the lookup, else one, for the docket number clean_mc
registry_requests(mc_number, api_key) ==
    IF clean_mc(mc_number) = <<>> \/ Falsy(api_key)
    THEN <<>>
    ELSE <<[docket_number |-> clean_mc(mc_number), webKey |-> api_key, timeout |-> 10]>>

---------------------------------------------------------------------------
(* Direct calls of the verification adapter *)

NotCalled == [exc |-> "not_called"]

Builds ==
    [json_error_is_request_exception : BOOLEAN, collection_bool_raises : BOOLEAN]

NoMongo == [client |-> None]
NoDatabase == [up |-> FALSE]
NoRequest == [route |-> "none"]

InitVerify ==
    /\ build \in {b \in Builds : ~b.collection_bool_raises}
    /\ environ \in {[FMCSA_API_KEY |-> k] : k \in {None, "", "webkey"}}
    /\ call \in {[mc_number |-> mc, upstream |-> u, requests |-> <<>>, out |-> NotCalled] :
                    mc \in Identifiers, u \in Upstreams}
    /\ mongo_conn = NoMongo
    /\ database = NoDatabase
    /\ now = 0
    /\ last = NoRequest

\* result = verify_mc_number(mc_number)
VerifyCall ==
    /\ call.out = NotCalled
    /\ call' = [call EXCEPT
                  !.requests = registry_requests(call.mc_number, environ.FMCSA_API_KEY),
                  !.out = verify_mc_number(call.mc_number, environ.FMCSA_API_KEY,
                                           call.upstream, build)]
    /\ UNCHANGED <<build, environ, mongo_conn, database, now, last>>

NextVerify == VerifyCall

SpecVerify == InitVerify /\ [][NextVerify]_vars

---------------------------------------------------------------------------
(* Flask requests and responses *)

\* request.get_json(): the JSON value null, or a JSON object with its fields
JsonNull == [json |-> "null"]
JsonObject(f) == [json |-> "object", fields |-> f]

\* not data
NotData(data) == data.json = "null" \/ DOMAIN data.fields = {}

\* 'key' in data, for a data that is not falsy
HasField(data, key) == key \in DOMAIN data.fields

\* the identifiers and registry behaviours of the requests the services receive
RequestIds ==
    { <<"M", "C", "-", "2", "2", "7", "2", "7", "1">>,
      <<"2", "2", "7", "2", "7", "1">>,
      <<"I", "N", "V", "A", "L", "I", "D">>,
      <<>> }

VerifyBodies ==
    {JsonNull, JsonObject([k \in {} |-> ""]), JsonObject([other |-> "x"])}
    \cup {JsonObject([mc_number |-> mc]) : mc \in RequestIds}

---------------------------------------------------------------------------
(* app.py: the service without the API-key gate *)

\* the if/elif chain on result['status'] of both routes
status_code_of(result) ==
    IF result.status = "error" THEN 500
    ELSE IF result.status = "not_found" THEN 404
    ELSE IF result.status = "invalid" THEN 400
    ELSE 200

\* GET /api/verify/<mc_number>
app_verify_carrier(mc_number, api_key, upstream, b) ==
    LET out == verify_mc_number(mc_number, api_key, upstream, b) IN
    IF out.exc = "none"
    THEN [code |-> status_code_of(out.ret), body |-> out.ret,
          requests |-> registry_requests(mc_number, api_key)]
    ELSE [code |-> 500,
          body |-> [status |-> "error",
                    error |-> "Internal server error: " \o out.exc,
                    mc_number |-> mc_number],
          requests |-> registry_requests(mc_number, api_key)]

\* POST /api/verify
app_verify_carrier_post(data, api_key, upstream, b) ==
    IF NotData(data) \/ ~HasField(data, "mc_number")
    THEN [code |-> 400,
          body |-> [status |-> "error", error |-> "Missing 'mc_number' in request body"],
          requests |-> <<>>]
    ELSE LET mc_number == data.fields.mc_number
             out == verify_mc_number(mc_number, api_key, upstream, b)
         IN IF out.exc = "none"
            THEN [code |-> status_code_of(out.ret), body |-> out.ret,
                  requests |-> registry_requests(mc_number, api_key)]
            ELSE [code |-> 500,
                  body |-> [status |-> "error",
                            error |-> "Internal server error: " \o out.exc],
                  requests |-> registry_requests(mc_number, api_key)]

NoCall == [mc_number |-> <<>>, upstream |-> [kind |-> "timeout"], requests |-> <<>>,
           out |-> NotCalled]

InitApp ==
    /\ build \in {b \in Builds : ~b.collection_bool_raises}
    /\ environ \in {[FMCSA_API_KEY |-> k] : k \in {None, "webkey"}}
    /\ call = NoCall
    /\ mongo_conn = NoMongo
    /\ database = NoDatabase
    /\ now = 0
    /\ last = NoRequest

AppVerifyGet ==
    \E mc \in RequestIds \ {<<>>}, u \in Upstreams :   \* the route needs a path segment
        LET r == app_verify_carrier(mc, environ.FMCSA_API_KEY, u, build) IN
        /\ last' = [route |-> "GET /api/verify/<mc_number>", mc_number |-> mc,
                    upstream |-> u, code |-> r.code, body |-> r.body,
                    requests |-> r.requests]
        /\ UNCHANGED <<build, environ, call, mongo_conn, database, now>>

AppVerifyPost ==
    \E data \in VerifyBodies, u \in Upstreams :
        LET r == app_verify_carrier_post(data, environ.FMCSA_API_KEY, u, build) IN
        /\ last' = [route |-> "POST /api/verify", data |-> data,
                    upstream |-> u, code |-> r.code, body |-> r.body,
                    requests |-> r.requests]
        /\ UNCHANGED <<build, environ, call, mongo_conn, database, now>>

\* GET /health
AppHealth ==
    /\ last' = [route |-> "GET /health", code |-> 200, body |-> [status |-> "healthy"]]
    /\ UNCHANGED <<build, environ, call, mongo_conn, database, now>>

NextApp == AppVerifyGet \/ AppVerifyPost \/ AppHealth

SpecApp == InitApp /\ [][NextApp]_vars

---------------------------------------------------------------------------
(* mongo_client.py: the persistence adapter *)

\* os.getenv(key, default)
getenv(env, key, default) == IF env[key] = None THEN default ELSE env[key]

\* A MongoClient object is named by the order of its creation (0: None); a
\* Database or Collection object by its client and its name.
NoneHandle == [client |-> 0, name |-> None]

\* MongoConnection.__init__
MongoConnection ==
    [connection_string |-> None,
     database_name |-> None,
     loads_collection_name |-> None,
     carriers_calls_collection_name |-> None,
     client |-> 0,
     db |-> NoneHandle,
     loads_collection |-> NoneHandle,
     carriers_calls_collection |-> NoneHandle,
     initialized |-> FALSE]

\* the four os.getenv assignments of _initialize
read_config(m, env) ==
    [m EXCEPT
       !.connection_string = getenv(env, "MONGODB_URI", None),
       !.database_name = getenv(env, "DATABASE_NAME", None),
       !.loads_collection_name = getenv(env, "LOADS_COLLECTION_NAME", None),
       !.carriers_calls_collection_name =
           getenv(env, "CARRIERS_CALLS_COLLECTION_NAME", "carriers_calls")]

\* the three checks of _initialize on the fields just assigned: a missing key
\* raises ValueError, else _initialized is set
check_config(m) ==
    IF \/ Falsy(m.connection_string)
       \/ Falsy(m.database_name)
       \/ Falsy(m.loads_collection_name)
    THEN [exc |-> "ValueError", mongo |-> m]
    ELSE [exc |-> "none", mongo |-> [m EXCEPT !.initialized = TRUE]]

\* MongoConnection._initialize
initialize(m, env) ==
    IF m.initialized
    THEN [exc |-> "none", mongo |-> m]
    ELSE check_config(read_config(m, env))

\* the except Exception clause of connect: if self.client: close it and
\* forget it; return False
connect_failed(m, db) ==
    [ok |-> FALSE, mongo |-> [m EXCEPT !.client = 0], db |-> db]

\* connect after _initialize did i: _initialize is called inside the try
\* block, so its ValueError is caught like any other exception.
\* ctor_raises: MongoClient(...) raises (it can only when the server cannot
\* be looked up).
connect_after(i, db, ctor_raises) ==
    IF i.exc # "none" THEN connect_failed(i.mongo, db)
    ELSE IF ctor_raises THEN connect_failed(i.mongo, db)
    ELSE LET c == db.clients + 1 IN
         [ok |-> TRUE,
          mongo |-> [i.mongo EXCEPT
                       !.client = c,
                       !.db = [client |-> c, name |-> i.mongo.database_name],
                       !.loads_collection =
                           [client |-> c, name |-> i.mongo.loads_collection_name],
                       !.carriers_calls_collection =
                           [client |-> c, name |-> i.mongo.carriers_calls_collection_name]],
          db |-> [db EXCEPT !.clients = c]]

\* MongoConnection.connect
connect(m, env, db, ctor_raises) == connect_after(initialize(m, env), db, ctor_raises)

\* not collection: a Collection of PyMongo 4 raises NotImplementedError on a
\* truth test, one of PyMongo 3 is true
collection_bool(h, b) ==
    IF h = NoneHandle THEN "false"
    ELSE IF b.collection_bool_raises THEN "raise"
    ELSE "true"

\* ObjectId of the n-th document and str(ObjectId)
ObjectId(n) == [oid |-> n]
str_oid(o) == ToString(o.oid)

\* a server on which every collection reads as empty, so that a write
\* replaces what was stored
documents_lost(db, name) == <<>>

\* the documents of a collection of the server (one never written is empty)
documents(db, name) == IF name \in DOMAIN db.collections THEN db.collections[name] ELSE <<>>

\* load['_id'] = str(load['_id']) for a load that has an _id
render_load(load) ==
    IF "_id" \in DOMAIN load THEN [load EXCEPT !["_id"] = str_oid(@)] ELSE load

\* render_load over a list
render_loads(loads) == [i \in 1..Len(loads) |-> render_load(loads[i])]

\* collection.find({"equipment_type": equipment_type})
find_by_equipment(docs, equipment_type) ==
    SelectSeq(docs, LAMBDA d : "equipment_type" \in DOMAIN d
                               /\ d["equipment_type"] = equipment_type)

\* the adapter already holds a collection: connect is not called
connected(m, db) == [ok |-> TRUE, mongo |-> m, db |-> db]

\* search_loads_by_equipment from the query on, c being what connect did (or
\* connected); failed: it returns None; exc: the exception that leaves it
\* (none does, its except Exception clause catches all)
find_loads(c, equipment_type) ==
    IF ~c.ok
    THEN [failed |-> TRUE, exc |-> "none", loads |-> <<>>, db_ops |-> <<>>,
          db |-> c.db, mongo |-> c.mongo]
    ELSE LET h == c.mongo.loads_collection
             op == [op |-> "find", collection |-> h.name, client |-> h.client]
         IN IF ~c.db.up
            THEN [failed |-> TRUE, exc |-> "none", loads |-> <<>>,
                  db_ops |-> <<op>>, db |-> c.db,
                  mongo |-> [c.mongo EXCEPT !.client = 0,
                                            !.loads_collection = NoneHandle]]
            ELSE [failed |-> FALSE, exc |-> "none",
                  loads |-> render_loads(
                              find_by_equipment(documents(c.db, h.name), equipment_type)),
                  db_ops |-> <<op>>, db |-> c.db, mongo |-> c.mongo]

\* MongoConnection.search_loads_by_equipment
search_loads_by_equipment(m, env, db, equipment_type, ctor_raises, b) ==
    IF collection_bool(m.loads_collection, b) = "raise"
    THEN [failed |-> TRUE, exc |-> "none", loads |-> <<>>, db_ops |-> <<>>, db |-> db,
          mongo |-> [m EXCEPT !.client = 0, !.loads_collection = NoneHandle]]
    ELSE find_loads(IF collection_bool(m.loads_collection, b) = "false"
                    THEN connect(m, env, db, ctor_raises)
                    ELSE connected(m, db),
                    equipment_type)

\* insert_carrier_call from the insertion on, c being what connect did (or
\* connected)
insert_one(c, call_data) ==
    IF ~c.ok
    THEN [failed |-> TRUE, exc |-> "none", result |-> None, db_ops |-> <<>>,
          db |-> c.db, mongo |-> c.mongo]
    ELSE LET h == c.mongo.carriers_calls_collection
             op == [op |-> "insert_one", collection |-> h.name, client |-> h.client]
             id == ObjectId(c.db.next_oid)
             doc == ("_id" :> id) @@ call_data
         IN IF ~c.db.up
            THEN [failed |-> TRUE, exc |-> "none", result |-> None,
                  db_ops |-> <<op>>, db |-> c.db,
                  mongo |-> [c.mongo EXCEPT !.client = 0,
                                            !.carriers_calls_collection = NoneHandle]]
            ELSE [failed |-> FALSE, exc |-> "none",
                  result |-> [inserted_id |-> str_oid(id), acknowledged |-> TRUE],
                  db_ops |-> <<op>>,
                  db |-> [c.db EXCEPT
                            !.next_oid = @ + 1,
                            !.collections =
                                (h.name :> Append(documents(c.db, h.name), doc)) @@ @],
                  mongo |-> c.mongo]

\* MongoConnection.insert_carrier_call
insert_carrier_call(m, env, db, call_data, ctor_raises, b) ==
    IF collection_bool(m.carriers_calls_collection, b) = "raise"
    THEN [failed |-> TRUE, exc |-> "none", result |-> None, db_ops |-> <<>>, db |-> db,
          mongo |-> [m EXCEPT !.client = 0, !.carriers_calls_collection = NoneHandle]]
    ELSE insert_one(IF collection_bool(m.carriers_calls_collection, b) = "false"
                    THEN connect(m, env, db, ctor_raises)
                    ELSE connected(m, db),
                    call_data)

---------------------------------------------------------------------------
(* api.py: the service behind the API-key gate *)

\* what a request did: the response, whether the route function ran, the
\* registry lookups and database operations issued, the call of the
\* persistence adapter, and the adapter and the server afterwards
NoAdapterCall == [op |-> "none"]

rejected(code, msg, m, db) ==
    [code |-> code, body |-> [status |-> "error", error |-> msg], ran |-> FALSE,
     requests |-> <<>>, db_ops |-> <<>>, adapter |-> NoAdapterCall,
     mongo |-> m, db |-> db]

handled(code, body, requests, m, db) ==
    [code |-> code, body |-> body, ran |-> TRUE,
     requests |-> requests, db_ops |-> <<>>, adapter |-> NoAdapterCall,
     mongo |-> m, db |-> db]

\* require_api_key that compares nothing once a key is provided
require_api_key_any_key(api_secret, provided_key, f, m, db) ==
    IF Falsy(api_secret)
    THEN rejected(500, "API authentication not configured", m, db)
    ELSE IF Falsy(provided_key)
    THEN rejected(401, "API key required. Include 'X-API-Key' header.", m, db)
    ELSE f

\* require_api_key: decorated_function, f being what the route function does
require_api_key(api_secret, provided_key, f, m, db) ==
    IF Falsy(api_secret)
    THEN rejected(500, "API authentication not configured", m, db)
    ELSE IF Falsy(provided_key)
    THEN rejected(401, "API key required. Include 'X-API-Key' header.", m, db)
    ELSE IF provided_key # api_secret
    THEN rejected(401, "Invalid API key", m, db)
    ELSE f

\* verify_carrier after result = verify_mc_number(mc_number): jsonify(result),
\* or the except Exception clause
verify_carrier_response(out, requests, m, db) ==
    IF out.exc = "none"
    THEN handled(200, out.ret, requests, m, db)
    ELSE handled(500, [status |-> "error",
                       error |-> "Internal server error: " \o out.exc],
                 requests, m, db)

\* verify_carrier (POST /verify-carrier)
verify_carrier(data, api_key, upstream, b, m, db) ==
    IF NotData(data) \/ ~HasField(data, "mc_number")
    THEN handled(400, [status |-> "error", error |-> "MC number is required"], <<>>, m, db)
    ELSE verify_carrier_response(
             verify_mc_number(data.fields.mc_number, api_key, upstream, b),
             registry_requests(data.fields.mc_number, api_key), m, db)

\* what a route function did after a call r of the persistence adapter:
\* 500 if r is None, else 200 with the body
after_adapter(r, adapter, body) ==
    IF r.failed
    THEN [code |-> 500,
          body |-> [status |-> "error", error |-> "Database connection failed"],
          ran |-> TRUE, requests |-> <<>>, db_ops |-> r.db_ops,
          adapter |-> adapter, mongo |-> r.mongo, db |-> r.db]
    ELSE [code |-> 200, body |-> body,
          ran |-> TRUE, requests |-> <<>>, db_ops |-> r.db_ops,
          adapter |-> adapter, mongo |-> r.mongo, db |-> r.db]

\* search_loads after loads = mongo_conn.search_loads_by_equipment(...)
search_loads_response(equipment_type, r) ==
    after_adapter(r,
        [op |-> "search_loads_by_equipment", failed |-> r.failed, exc |-> r.exc,
         loads |-> r.loads],
        [status |-> "success", equipment_type |-> equipment_type,
         count |-> Len(r.loads), loads |-> r.loads])

\* search_loads (POST /search-loads)
search_loads(data, env, m, db, ctor_raises, b) ==
    IF NotData(data) \/ ~HasField(data, "equipment_type")
    THEN handled(400, [status |-> "error", error |-> "equipment_type is required"],
                 <<>>, m, db)
    ELSE search_loads_response(data.fields.equipment_type,
             search_loads_by_equipment(m, env, db, data.fields.equipment_type,
                                       ctor_raises, b))

\* create_carrier_call after result = mongo_conn.insert_carrier_call(call_data)
create_carrier_call_response(call_data, r) ==
    after_adapter(r,
        [op |-> "insert_carrier_call", failed |-> r.failed, exc |-> r.exc,
         call_data |-> call_data],
        [status |-> "success",
         message |-> "Carrier call record created successfully",
         data |-> r.result])

\* call_data in which a created_at of the request body survives
stamped_body_wins(fields, utcnow) == fields @@ ("created_at" :> utcnow)

\* call_data = {**data, "created_at": datetime.now(timezone.utc)}
stamped(fields, utcnow) == ("created_at" :> utcnow) @@ fields

\* create_carrier_call (POST /carriers-calls); utcnow: datetime.now(timezone.utc)
create_carrier_call(data, utcnow, env, m, db, ctor_raises, b) ==
    IF NotData(data)
    THEN handled(400, [status |-> "error", error |-> "Request body is required"],
                 <<>>, m, db)
    ELSE create_carrier_call_response(stamped(data.fields, utcnow),
             insert_carrier_call(m, env, db, stamped(data.fields, utcnow),
                                 ctor_raises, b))

---------------------------------------------------------------------------
(* The gated service and its surroundings *)

\* the X-API-Key header: absent, empty, the secret, another key
ProvidedKeys == {None, "", "secret", "wrong"}

FullEnviron ==
    [API_SECRET_KEY |-> "secret",
     FMCSA_API_KEY |-> "webkey",
     MONGODB_URI |-> "mongodb://host",
     DATABASE_NAME |-> "freight",
     LOADS_COLLECTION_NAME |-> "loads",
     CARRIERS_CALLS_COLLECTION_NAME |-> "calls"]

\* every key set, or exactly one of them unset
ApiEnvirons ==
    {FullEnviron} \cup {[FullEnviron EXCEPT ![k] = None] : k \in DOMAIN FullEnviron}

\* registry behaviours seen by the gated service: one per kind of outcome
ApiUpstreams ==
    { [kind |-> "timeout"],
      [kind |-> "http", code |-> 404, body |-> NoBody],
      [kind |-> "http", code |-> 200,
       body |-> [kind |-> "record",
                 content |-> [kind |-> "list",
                              first |-> [kind |-> "record",
                                         carrier |-> [kind |-> "record",
                                                      fields |-> Carrier("A", "Y", KnightFields)]]]]],
      [kind |-> "http", code |-> 200,
       body |-> [kind |-> "record",
                 content |-> [kind |-> "list",
                              first |-> [kind |-> "record",
                                         carrier |-> [kind |-> "null"]]]]] }

EquipmentTypes == {"flatbed", "Flatbed", "van"}

SearchBodies ==
    {JsonNull, JsonObject([other |-> "x"])}
    \cup {JsonObject([equipment_type |-> t]) : t \in EquipmentTypes}

CallBodies ==
    {JsonNull, JsonObject([k \in {} |-> ""]),
     JsonObject([carrier |-> "ACME"]),
     JsonObject([carrier |-> "ACME", created_at |-> 0])}

\* the loads collection as the service finds it
InitialLoads ==
    << ("_id" :> ObjectId(1)) @@ [equipment_type |-> "flatbed", origin |-> "PHX"],
       ("_id" :> ObjectId(2)) @@ [equipment_type |-> "reefer", origin |-> "LAX"],
       ("_id" :> ObjectId(3)) @@ [equipment_type |-> "flatbed", origin |-> "DEN"],
       ("_id" :> ObjectId(4)) @@ [equipment_type |-> "Flatbed", origin |-> "SLC"],
       ("_id" :> ObjectId(5)) @@ [origin |-> "ABQ"] >>

Init ==
    /\ build \in {b \in Builds : b.json_error_is_request_exception}
    /\ environ \in ApiEnvirons
    /\ call = NoCall
    /\ mongo_conn = MongoConnection
    /\ database = [up |-> TRUE, clients |-> 0, next_oid |-> Len(InitialLoads) + 1,
                   collections |-> ("loads" :> InitialLoads)]
    /\ now = 1
    /\ last = NoRequest

\* the request is answered as e says and the adapter and server are left as
\* e says (a run creates at most MaxClients clients and MaxCalls documents)
Answer(route, key, data, e) ==
    /\ e.db.clients <= MaxClients
    /\ e.db.next_oid <= Len(InitialLoads) + 1 + MaxCalls
    /\ last' = [route |-> route, key |-> key, data |-> data,
                code |-> e.code, body |-> e.body, ran |-> e.ran,
                requests |-> e.requests, db_ops |-> e.db_ops, adapter |-> e.adapter]
    /\ mongo_conn' = e.mongo
    /\ database' = e.db

VerifyCarrier ==
    \E key \in ProvidedKeys, data \in VerifyBodies, u \in ApiUpstreams :
        /\ Answer("POST /verify-carrier", key, data,
                  require_api_key(environ.API_SECRET_KEY, key,
                      verify_carrier(data, environ.FMCSA_API_KEY, u, build,
                                     mongo_conn, database),
                      mongo_conn, database))
        /\ UNCHANGED <<build, environ, call, now>>

HealthCheck ==
    /\ last' = [route |-> "GET /health", key |-> None, data |-> JsonNull,
                code |-> 200, body |-> [status |-> "healthy"], ran |-> TRUE,
                requests |-> <<>>, db_ops |-> <<>>, adapter |-> NoAdapterCall]
    /\ UNCHANGED <<build, environ, call, mongo_conn, database, now>>

SearchLoads ==
    \E key \in ProvidedKeys, data \in SearchBodies,
       ctor_raises \in (IF database.up THEN {FALSE} ELSE BOOLEAN) :
        /\ Answer("POST /search-loads", key, data,
                  require_api_key(environ.API_SECRET_KEY, key,
                      search_loads(data, environ, mongo_conn, database, ctor_raises, build),
                      mongo_conn, database))
        /\ UNCHANGED <<build, environ, call, now>>

CreateCarrierCall ==
    \E key \in ProvidedKeys, data \in CallBodies, t \in now..MaxTime,
       ctor_raises \in (IF database.up THEN {FALSE} ELSE BOOLEAN) :
        /\ Answer("POST /carriers-calls", key, data,
                  require_api_key(environ.API_SECRET_KEY, key,
                      create_carrier_call(data, t, environ, mongo_conn, database,
                                          ctor_raises, build),
                      mongo_conn, database))
        /\ now' = t
        /\ UNCHANGED <<build, environ, call>>

\* the MongoDB server becomes unreachable, or reachable again
DatabaseDown ==
    /\ database.up
    /\ database' = [database EXCEPT !.up = FALSE]
    /\ UNCHANGED <<build, environ, call, mongo_conn, now, last>>

DatabaseUp ==
    /\ ~database.up
    /\ database' = [database EXCEPT !.up = TRUE]
    /\ UNCHANGED <<build, environ, call, mongo_conn, now, last>>

Next ==
    \/ VerifyCarrier
    \/ HealthCheck
    \/ SearchLoads
    \/ CreateCarrierCall
    \/ DatabaseDown
    \/ DatabaseUp

Spec == Init /\ [][Next]_vars

---------------------------------------------------------------------------
(* Properties of the verification adapter, checked under SpecVerify *)

Called == call.out # NotCalled
ReturnedResult == call.out.exc = "none"

\* d is the sequence of the digit characters of s, in their order in s
IsDigitsOf(d, s) ==
    /\ \A k \in 1..Len(d) : IsDigit(d[k])
    /\ Len(d) = Cardinality({i \in 1..Len(s) : IsDigit(s[i])})
    /\ \A k \in 1..Len(d) :
         \E i \in 1..Len(s) :
            /\ IsDigit(s[i])
            /\ Cardinality({j \in 1..i : IsDigit(s[j])}) = k
            /\ d[k] = s[i]

HasDigit(s) == \E i \in 1..Len(s) : IsDigit(s[i])
Configured == ~Falsy(environ.FMCSA_API_KEY)

\* the call reached parse_fmcsa_response with a dict body
Parsing ==
    /\ Called /\ HasDigit(call.mc_number) /\ Configured
    /\ call.upstream.kind = "http" /\ call.upstream.code = 200
    /\ call.upstream.body.kind = "record"

\* the first content entry holds a carrier dict
HasCarrierRecord ==
    /\ Parsing
    /\ call.upstream.body.content.kind = "list"
    /\ call.upstream.body.content.first.kind = "record"
    /\ call.upstream.body.content.first.carrier.kind = "record"

CarrierFields == call.upstream.body.content.first.carrier.fields

\* the result came from one of the two except clauses of verify_mc_number
TransportFailure ==
    \/ call.upstream.kind \in {"timeout", "conn_error"}
    \/ /\ call.upstream.kind = "http" /\ call.upstream.code = 200
       /\ call.upstream.body.kind = "not_json"

DerivedStatuses == {"verified", "inactive", "not_authorized", "unknown"}
AllStatuses == DerivedStatuses \cup {"not_found", "invalid", "error"}

\* C2: the status of a parsed carrier record follows the ordered decision
\* list on (statusCode, allowedToOperate), an absent field counting as "":
\* A and Y give verified; else I or U give inactive whatever
\* allowedToOperate is; else N gives not_authorized; else unknown.
C2_DecisionList ==
    HasCarrierRecord =>
        LET sc == IF "statusCode" \in DOMAIN CarrierFields
                  THEN CarrierFields["statusCode"] ELSE ""
            ato == IF "allowedToOperate" \in DOMAIN CarrierFields
                   THEN CarrierFields["allowedToOperate"] ELSE ""
            first == sc = "A" /\ ato = "Y"
            second == sc = "I" \/ sc = "U"
            third == ato = "N"
        IN /\ ReturnedResult
           /\ first => call.out.ret.status = "verified"
           /\ ~first /\ second => call.out.ret.status = "inactive"
           /\ ~first /\ ~second /\ third => call.out.ret.status = "not_authorized"
           /\ ~first /\ ~second /\ ~third => call.out.ret.status = "unknown"

\* an inactive carrier that is also not allowed to operate is reported inactive
C2_Witness ==
    /\ HasCarrierRecord
    /\ "statusCode" \in DOMAIN CarrierFields /\ CarrierFields["statusCode"] = "I"
    /\ "allowedToOperate" \in DOMAIN CarrierFields /\ CarrierFields["allowedToOperate"] = "N"
    /\ call.out.ret.status = "inactive"

\* C3: an identifier without digits gives invalid with the identifier as
\* given and no lookup, whatever the credential and the upstream are;
\* otherwise the lookup key, and the mc_number of every result that does not
\* come from a transport failure, is the identifier's digits in their order.
C3_Canonical ==
    Called =>
        /\ ~HasDigit(call.mc_number) =>
             /\ call.out = Returned([status |-> "invalid",
                                     error |-> "Invalid MC number format",
                                     mc_number |-> call.mc_number])
             /\ call.requests = <<>>
        /\ HasDigit(call.mc_number) =>
             /\ \A i \in 1..Len(call.requests) :
                   IsDigitsOf(call.requests[i].docket_number, call.mc_number)
             /\ (ReturnedResult /\ ~TransportFailure) =>
                   /\ call.out.ret.status # "invalid"
                   /\ IsDigitsOf(call.out.ret.mc_number, call.mc_number)

\* "mc-227271" is looked up and reported as "227271"
C3_Witness ==
    /\ Called
    /\ call.mc_number = <<"m", "c", "-", "2", "2", "7", "2", "7", "1">>
    /\ Len(call.requests) = 1
    /\ call.requests[1].docket_number = <<"2", "2", "7", "2", "7", "1">>
    /\ ReturnedResult
    /\ call.out.ret.status = "verified"
    /\ call.out.ret.mc_number = <<"2", "2", "7", "2", "7", "1">>

\* C4: with digits in the identifier, each outcome of the lookup gives its
\* result: timeout and transport failure give error with the identifier as
\* given; 404 gives not_found, any code other than 200 and 404 gives error
\* naming the code, both with the cleaned identifier; 200 gives what
\* parsing the decoded body gives; no credential gives error with the
\* cleaned identifier and no lookup.
C4_OutcomeMap ==
    (Called /\ HasDigit(call.mc_number)) =>
        LET u == call.upstream IN
        /\ ~Configured =>
             /\ ReturnedResult
             /\ call.out.ret.status = "error"
             /\ IsDigitsOf(call.out.ret.mc_number, call.mc_number)
             /\ call.requests = <<>>
        /\ (Configured /\ u.kind = "timeout") =>
             call.out = Returned([status |-> "error",
                                  error |-> "FMCSA API timeout",
                                  mc_number |-> call.mc_number])
        /\ (Configured /\ u.kind = "conn_error") =>
             call.out = Returned([status |-> "error",
                                  error |-> "Request failed: " \o u.msg,
                                  mc_number |-> call.mc_number])
        /\ (Configured /\ u.kind = "http" /\ u.code = 404) =>
             /\ ReturnedResult
             /\ call.out.ret.status = "not_found"
             /\ IsDigitsOf(call.out.ret.mc_number, call.mc_number)
        /\ (Configured /\ u.kind = "http" /\ u.code \notin {200, 404}) =>
             /\ ReturnedResult
             /\ call.out.ret.status = "error"
             /\ call.out.ret.error = "FMCSA API returned status " \o ToString(u.code)
             /\ IsDigitsOf(call.out.ret.mc_number, call.mc_number)
        /\ (Configured /\ u.kind = "http" /\ u.code = 200 /\ u.body.kind # "not_json") =>
             call.out = parse_fmcsa_response(u.body, call.requests[1].docket_number)

\* a 404 for "MC-000000" is reported as not_found for "000000"
C4_Witness ==
    /\ Called /\ Configured
    /\ call.mc_number = <<"M", "C", "-", "0", "0", "0", "0", "0", "0">>
    /\ call.upstream.kind = "http" /\ call.upstream.code = 404
    /\ call.out.ret.status = "not_found"
    /\ call.out.ret.mc_number = <<"0", "0", "0", "0", "0", "0">>

\* C5: parsing a 200 body: a missing or empty content list gives not_found;
\* a first entry without a carrier record gives error with the body
\* attached as raw_response; otherwise the status is one of the four derived
\* ones and no raw_response is attached.
C5_ParseShapes ==
    Parsing =>
        LET content == call.upstream.body.content IN
        /\ content.kind \in {"missing", "null", "empty_list"} =>
             ReturnedResult /\ call.out.ret.status = "not_found"
        /\ (content.kind = "list" /\ ~HasCarrierRecord) =>
             /\ ReturnedResult
             /\ call.out.ret.status = "error"
             /\ "raw_response" \in DOMAIN call.out.ret
             /\ call.out.ret.raw_response = call.upstream.body
        /\ HasCarrierRecord =>
             /\ ReturnedResult
             /\ call.out.ret.status \in DerivedStatuses
             /\ "raw_response" \notin DOMAIN call.out.ret

\* C6: every call of verify returns a result whose status is one of the
\* seven statuses; no exception leaves verify.
C6_Total ==
    Called => (ReturnedResult /\ call.out.ret.status \in AllStatuses)

---------------------------------------------------------------------------
(* Properties of the ungated service, checked under SpecApp *)

AppVerifyRoutes == {"GET /api/verify/<mc_number>", "POST /api/verify"}

\* the last request was a verification request carrying an identifier
AppVerified ==
    /\ last.route \in AppVerifyRoutes
    /\ last.route = "POST /api/verify" =>
          (~NotData(last.data) /\ HasField(last.data, "mc_number"))

AppId ==
    IF last.route = "POST /api/verify" THEN last.data.fields.mc_number ELSE last.mc_number

\* the response of the last request
AppResponse == [code |-> last.code, body |-> last.body, requests |-> last.requests]

\* C7: on both ungated routes the HTTP status code is a function of the
\* status in the body (error 500, not_found 404, invalid 400, any other
\* 200); a POST without an mc_number field gives 400 and makes no lookup;
\* and for the same identifier the GET route and the POST route answer the
\* same: same code, same body, same lookups.
C7_SameOnBothRoutes ==
    /\ (last.route = "POST /api/verify" /\ ~AppVerified) =>
          (last.code = 400 /\ last.requests = <<>>)
    /\ AppVerified =>
          /\ last.body.status \in AllStatuses
          /\ last.body.status = "error" => last.code = 500
          /\ last.body.status = "not_found" => last.code = 404
          /\ last.body.status = "invalid" => last.code = 400
          /\ last.body.status \in DerivedStatuses => last.code = 200
          /\ AppResponse =
                app_verify_carrier(AppId, environ.FMCSA_API_KEY, last.upstream, build)
          /\ AppResponse =
                app_verify_carrier_post(JsonObject([mc_number |-> AppId]),
                                        environ.FMCSA_API_KEY, last.upstream, build)

---------------------------------------------------------------------------
(* Properties of the gated service, checked under Spec *)

GatedRoutes == {"POST /verify-carrier", "POST /search-loads", "POST /carriers-calls"}

\* the X-API-Key header of the last request equals the configured secret
KeyMatches == ~Falsy(environ.API_SECRET_KEY) /\ last.key = environ.API_SECRET_KEY

C1_Gated ==
    last.route \in GatedRoutes =>
       /\ (\/ last.ran
           \/ last.requests # <<>>
           \/ last.db_ops # <<>>
           \/ last.adapter # NoAdapterCall) => KeyMatches
       /\ Falsy(environ.API_SECRET_KEY) => last.code = 500
       /\ (~Falsy(environ.API_SECRET_KEY) /\ Falsy(last.key)) => last.code = 401
       /\ (~Falsy(environ.API_SECRET_KEY) /\ ~Falsy(last.key)
             /\ last.key # environ.API_SECRET_KEY) => last.code = 401
       /\ ~KeyMatches =>
             /\ ~last.ran
             /\ last.requests = <<>>
             /\ last.db_ops = <<>>
             /\ last.adapter = NoAdapterCall

\* a step that ends in a rejected request has written nothing and has left
\* the persistence adapter as it was
C1_Rejected ==
    (last'.route \in GatedRoutes /\ ~last'.ran) =>
       /\ database'.collections = database.collections
       /\ database'.next_oid = database.next_oid
       /\ database'.clients = database.clients
       /\ mongo_conn' = mongo_conn

\* C1: on the three gated routes the route function runs, and a registry
\* lookup or database operation is issued, only if the X-API-Key header
\* equals the configured secret; with no secret configured the answer is 500
\* whatever the key, else a missing or empty key gets 401 and a non-matching
\* key gets 401; a rejected request makes no outbound call and inserts no
\* record.
C1_Gate == [] C1_Gated /\ [][C1_Rejected]_vars

\* a non-empty call record sent with a wrong key while the server is
\* reachable is rejected with 401
C1_Witness ==
    /\ last.route = "POST /carriers-calls"
    /\ last.key = "wrong"
    /\ ~NotData(last.data)
    /\ database.up
    /\ last.code = 401
    /\ ~last.ran

\* C8: on POST /verify-carrier the gate comes first (401, or 500 with no
\* secret configured, even without mc_number); past the gate a body without
\* mc_number gets 400 and no lookup; past the gate with mc_number present
\* the answer is 200 with the verification result as body, whatever its
\* status.
C8_GateThenBody ==
    last.route = "POST /verify-carrier" =>
       /\ ~KeyMatches =>
             /\ last.code = (IF Falsy(environ.API_SECRET_KEY) THEN 500 ELSE 401)
             /\ ~last.ran
       /\ (KeyMatches /\ (NotData(last.data) \/ ~HasField(last.data, "mc_number"))) =>
             /\ last.code = 400
             /\ last.requests = <<>>
       /\ (KeyMatches /\ ~NotData(last.data) /\ HasField(last.data, "mc_number")) =>
             /\ last.code = 200
             /\ \E u \in ApiUpstreams :
                   verify_mc_number(last.data.fields.mc_number,
                                    environ.FMCSA_API_KEY, u, build)
                     = Returned(last.body)

\* the three keys the persistence adapter requires are set
ConfigComplete ==
    /\ ~Falsy(environ.MONGODB_URI)
    /\ ~Falsy(environ.DATABASE_NAME)
    /\ ~Falsy(environ.LOADS_COLLECTION_NAME)

\* the documents of docs whose equipment-type field equals t, each with its
\* identifier as a string
MatchingLoads(docs, t) ==
    LET match(d) == "equipment_type" \in DOMAIN d /\ d["equipment_type"] = t
        found == SelectSeq(docs, match)
    IN [i \in 1..Len(found) |-> [found[i] EXCEPT !["_id"] = ToString(@.oid)]]

\* a search that passed the gate and carried an equipment type, on a
\* configured service with the server reachable, answers 200 with the
\* matching loads and their count
C9_Search ==
    (/\ database.up /\ database'.up
     /\ ConfigComplete
     /\ last'.route = "POST /search-loads"
     /\ last'.ran
     /\ ~NotData(last'.data) /\ HasField(last'.data, "equipment_type")) =>
       /\ last'.adapter.op = "search_loads_by_equipment"
       /\ ~last'.adapter.failed
       /\ last'.adapter.loads =
             MatchingLoads(documents(database, environ.LOADS_COLLECTION_NAME),
                           last'.data.fields.equipment_type)
       /\ \A i \in 1..Len(last'.adapter.loads) :
             last'.adapter.loads[i]["_id"] \in STRING
       /\ last'.code = 200
       /\ last'.body.status = "success"
       /\ last'.body.loads = last'.adapter.loads
       /\ last'.body.count = Len(last'.adapter.loads)

\* C9: on a reachable database findLoadsByEquipment(t) returns exactly the
\* loads whose equipment-type field equals t, identifiers as strings, and
\* /search-loads answers success with them and their count (0 and an empty
\* list when none matches), never the 500 of a connection failure.
C9_FindLoads == [][C9_Search]_vars

\* a required key of the persistence adapter is missing
RequiredKeyMissing == ~ConfigComplete

\* constructing the adapter has read no configuration and opened no
\* connection
C10_Construction ==
    last = NoRequest =>
       /\ mongo_conn = MongoConnection
       /\ ~mongo_conn.initialized
       /\ mongo_conn.connection_string = None
       /\ mongo_conn.client = 0
       /\ database.clients = 0

\* C10: construction reads no configuration and opens no connection; a use
\* of findLoadsByEquipment or insertCarrierCall with a required key missing
\* raises a configuration error (ValueError) to its caller and does not
\* return the connection-failure signal; configuration once read is kept.
C10_FatalConfig ==
    /\ C10_Construction
    /\ (last.route \in GatedRoutes /\ last.adapter # NoAdapterCall
          /\ RequiredKeyMissing) =>
          /\ last.adapter.exc = "ValueError"
          /\ ~last.adapter.failed
    /\ mongo_conn.initialized =>
          /\ mongo_conn.connection_string = environ.MONGODB_URI
          /\ mongo_conn.database_name = environ.DATABASE_NAME
          /\ mongo_conn.loads_collection_name = environ.LOADS_COLLECTION_NAME

\* the last document of the collection the last request inserted into
StoredCall ==
    LET docs == documents(database, last.db_ops[1].collection) IN docs[Len(docs)]

\* C11: the creation time of a carrier-call record is the clock reading the
\* route function took while handling the request: it replaces a created_at
\* of the request body, the other fields of the body are handed over as they
\* are, and insertCarrierCall stores the document it received, creation time
\* included, unchanged.
C11_Stamped ==
    (last.route = "POST /carriers-calls" /\ last.adapter # NoAdapterCall) =>
       /\ DOMAIN last.adapter.call_data = DOMAIN last.data.fields \cup {"created_at"}
       /\ last.adapter.call_data["created_at"] = now
       /\ \A k \in DOMAIN last.data.fields \ {"created_at"} :
             last.adapter.call_data[k] = last.data.fields[k]
       /\ last.code = 200 =>
             /\ DOMAIN StoredCall = DOMAIN last.adapter.call_data \cup {"_id"}
             /\ \A k \in DOMAIN last.adapter.call_data :
                   StoredCall[k] = last.adapter.call_data[k]
             /\ StoredCall["created_at"] = now
             /\ str_oid(StoredCall["_id"]) = last.body.data.inserted_id

\* a body carrying its own created_at was stored at a later clock reading
C11_Witness ==
    /\ last.route = "POST /carriers-calls"
    /\ last.code = 200
    /\ "created_at" \in DOMAIN last.data.fields
    /\ last.data.fields["created_at"] # now
    /\ now = MaxTime
    /\ StoredCall["created_at"] = now

\* the last request called the persistence adapter
AdapterCalled == last.route \in GatedRoutes /\ last.adapter # NoAdapterCall

\* the last request called the persistence adapter and got the
\* connection-failure signal
AdapterFailed == AdapterCalled /\ last.adapter.failed

\* after a call that returned the connection-failure signal nothing of the
\* connection is cached: no client, no collection handle
C12_Cleared ==
    AdapterFailed =>
       /\ mongo_conn.client = 0
       /\ mongo_conn.loads_collection = NoneHandle
       /\ mongo_conn.carriers_calls_collection = NoneHandle

\* a request that touches the database right after a request whose adapter
\* call failed does so through a client that it has created itself
C12_Reconnects ==
    (/\ AdapterFailed
     /\ database'.up = database.up
     /\ last'.route \in GatedRoutes /\ last'.adapter # NoAdapterCall
     /\ last'.db_ops # <<>>) =>
       /\ database'.clients = database.clients + 1
       /\ last'.db_ops[1].client = database'.clients

\* C12: a call of findLoadsByEquipment or insertCarrierCall that returns
\* the connection-failure signal clears the cached connection state, so the
\* next call of either operation connects anew before it touches the
\* database and never uses a collection handle obtained before the failure.
C12_ResetOnFailure == [] C12_Cleared /\ [][C12_Reconnects]_vars

\* this step handled a request that called the persistence adapter, on a
\* configured service, with the server reachable
CallOnAvailable ==
    /\ database.up /\ database'.up
    /\ ConfigComplete
    /\ last'.route \in GatedRoutes /\ last'.adapter # NoAdapterCall

\* the first call connects and succeeds
C13_FirstConnects ==
    (CallOnAvailable /\ database.clients = 0) =>
       /\ ~last'.adapter.failed
       /\ database'.clients = 1
       /\ mongo_conn'.client = 1
       /\ last'.db_ops # <<>> /\ last'.db_ops[1].client = 1

\* a call that finds the connection open reuses it and succeeds
C13_Reuses ==
    (CallOnAvailable /\ mongo_conn.client # 0) =>
       /\ ~last'.adapter.failed
       /\ database'.clients = database.clients
       /\ mongo_conn'.client = mongo_conn.client
       /\ last'.db_ops # <<>> /\ last'.db_ops[1].client = mongo_conn.client

\* C13: the connection is opened by the first operation and reused by the
\* later ones: while the database stays available connect is performed once,
\* by the first call, and every call succeeds, those that find a cached
\* collection handle included.
C13_ConnectOnce == [][C13_FirstConnects /\ C13_Reuses]_vars

\* the outbound calls of the last request
OutboundCalls == Len(last.requests) + Len(last.db_ops)

\* the last request passed the gate and carried the field its route requires
Accepted ==
    /\ last.route \in GatedRoutes
    /\ KeyMatches
    /\ ~NotData(last.data)
    /\ last.route = "POST /verify-carrier" => HasField(last.data, "mc_number")
    /\ last.route = "POST /search-loads" => HasField(last.data, "equipment_type")

\* C14 as stated: each request to a verification or persistence route, even
\* one that passed the gate and carried its required field, results in
\* exactly one outbound call.
C14_ExactlyOne == Accepted => OutboundCalls = 1

\* C14: a request to a gated route results in at most one outbound call and
\* never in a repeated one. A verify request issues one registry lookup
\* exactly if it passed the gate with an mc_number that has a digit while
\* the registry credential is configured, whatever the registry then does
\* (timeout, failure, error status), and no database operation; a search or
\* insert request issues no lookup, one database operation if it succeeds,
\* and none if it was not accepted or the adapter failed before reaching the
\* database.
C14_AtMostOne ==
    last.route \in GatedRoutes =>
       /\ OutboundCalls <= 1
       /\ ~Accepted => OutboundCalls = 0
       /\ last.route = "POST /verify-carrier" =>
             /\ last.db_ops = <<>>
             /\ Len(last.requests) = 1 <=>
                   /\ Accepted
                   /\ HasDigit(last.data.fields.mc_number)
                   /\ Configured
       /\ last.route # "POST /verify-carrier" =>
             /\ last.requests = <<>>
             /\ last.code = 200 => Len(last.db_ops) = 1
             /\ (Accepted /\ last.db_ops = <<>>) => last.adapter.failed

\* a lookup that timed out was not repeated
C14_Witness ==
    /\ last.route = "POST /verify-carrier"
    /\ Accepted
    /\ last.body.status = "error"
    /\ last.body.error = "FMCSA API timeout"
    /\ Len(last.requests) = 1

\* what the server holds under a collection name
Stored(db, name) == IF name \in DOMAIN db.collections THEN db.collections[name] ELSE <<>>

\* the name of the carrier-calls collection
CallsName == getenv(environ, "CARRIERS_CALLS_COLLECTION_NAME", "carriers_calls")

\* old is an initial part of new
IsPrefix(old, new) ==
    /\ Len(old) <= Len(new)
    /\ \A i \in 1..Len(old) : new[i] = old[i]

\* this step handled a request (the server did not come or go)
RequestStep == database'.up = database.up

\* the request handled by this step was a /carriers-calls answered success
CallCreated == last'.route = "POST /carriers-calls" /\ last'.code = 200

C15_Step ==
    /\ Stored(database', "loads") = InitialLoads
    /\ \A name \in DOMAIN database.collections :
          /\ name \in DOMAIN database'.collections
          /\ IsPrefix(database.collections[name], database'.collections[name])
    /\ DOMAIN database'.collections \subseteq DOMAIN database.collections \cup {CallsName}
    /\ (RequestStep /\ CallCreated) =>
          /\ Len(Stored(database', CallsName)) = Len(Stored(database, CallsName)) + 1
          /\ IsPrefix(Stored(database, CallsName), Stored(database', CallsName))
    /\ (RequestStep /\ ~CallCreated) => database'.collections = database.collections

\* C15: over any sequence of requests the loads collection stays as it was
\* and the carrier-calls collection only grows at its end: a /carriers-calls
\* request answered success adds exactly one record, any other request
\* (stopped by the gate, answered 400, any verify or search request) adds
\* none, and no stored record is ever changed or removed.
C15_AppendOnly == [][C15_Step]_vars

\* a search answered after MaxCalls records were stored, the first of them
\* and the loads still as they were
C15_Witness ==
    /\ last.route = "POST /search-loads"
    /\ last.code = 200
    /\ Len(Stored(database, CallsName)) = MaxCalls
    /\ Stored(database, CallsName)[1]["_id"] = ObjectId(Len(InitialLoads) + 1)
    /\ Stored(database, "loads") = InitialLoads

---------------------------------------------------------------------------
(* mongo_client.py under concurrent requests: two request threads call the
   shared mongo_conn; a step is one read or write of a field of mongo_conn
   or one operation on the server. The variable call holds, per thread, the
   position in the adapter method and what the method returns. PyMongo 3
   build: the truth test of a cached collection is true, so that calls made one
   after the other succeed. *)

Threads == {1, 2}

AdapterOps == {"search_loads_by_equipment", "insert_carrier_call"}

\* the collection field an operation tests and uses
HandleOf(op) ==
    IF op = "search_loads_by_equipment"
    THEN mongo_conn.loads_collection
    ELSE mongo_conn.carriers_calls_collection

\* the arguments of the calls
ThreadEquipment == "flatbed"
ThreadCallData == [carrier |-> "ACME", created_at |-> 1]

Idle == [pc |-> "idle", op |-> "none", calls |-> 0, avail |-> FALSE,
         failed |-> FALSE, loads |-> <<>>, result |-> None]

InitThreads ==
    /\ build \in {b \in Builds : b.json_error_is_request_exception
                                 /\ ~b.collection_bool_raises}
    /\ environ = FullEnviron
    /\ call = [t \in Threads |-> Idle]
    /\ mongo_conn = MongoConnection
    /\ database = [up |-> TRUE, clients |-> 0, next_oid |-> Len(InitialLoads) + 1,
                   collections |-> ("loads" :> InitialLoads)]
    /\ now = 1
    /\ last = NoRequest

\* thread t moves to pc
Goto(t, pc) == call' = [call EXCEPT ![t].pc = pc]

\* thread t returns None
ReturnNone(t) == call' = [call EXCEPT ![t].pc = "done", ![t].failed = TRUE]

\* a request thread enters an operation of mongo_conn
BeginCall(t) ==
    /\ call[t].pc = "idle"
    /\ call[t].calls < MaxThreadCalls
    /\ \E op \in AdapterOps :
          call' = [call EXCEPT ![t] = [Idle EXCEPT !.pc = "truth_test", !.op = op,
                                                   !.calls = call[t].calls + 1,
                                                   !.avail = database.up]]
    /\ UNCHANGED <<build, environ, mongo_conn, database, now, last>>

\* if not self.loads_collection / if not self.carriers_calls_collection
TruthTest(t) ==
    /\ call[t].pc = "truth_test"
    /\ Goto(t, CASE collection_bool(HandleOf(call[t].op), build) = "raise" -> "except_client"
                 [] collection_bool(HandleOf(call[t].op), build) = "false" -> "connect"
                 [] OTHER -> "operation")
    /\ UNCHANGED <<build, environ, mongo_conn, database, now, last>>

\* connect: self._initialize() and self.client = MongoClient(...)
ConnectClient(t) ==
    /\ call[t].pc = "connect"
    /\ \E ctor_raises \in (IF database.up THEN {FALSE} ELSE BOOLEAN) :
          IF initialize(mongo_conn, environ).exc # "none" \/ ctor_raises
          THEN /\ mongo_conn' = initialize(mongo_conn, environ).mongo
               /\ Goto(t, "connect_except")
               /\ UNCHANGED database
          ELSE /\ database.clients < MaxClients
               /\ database' = [database EXCEPT !.clients = @ + 1]
               /\ mongo_conn' = [initialize(mongo_conn, environ).mongo
                                    EXCEPT !.client = database.clients + 1]
               /\ Goto(t, "connect_db")
    /\ UNCHANGED <<build, environ, now, last>>

\* connect: self.db = self.client[self.database_name]
ConnectDb(t) ==
    /\ call[t].pc = "connect_db"
    /\ IF mongo_conn.client = 0
       THEN Goto(t, "connect_except") /\ UNCHANGED mongo_conn
       ELSE /\ mongo_conn' = [mongo_conn EXCEPT
                                !.db = [client |-> mongo_conn.client,
                                        name |-> mongo_conn.database_name]]
            /\ Goto(t, "connect_loads")
    /\ UNCHANGED <<build, environ, database, now, last>>

\* connect: self.loads_collection = self.db[self.loads_collection_name]
ConnectLoads(t) ==
    /\ call[t].pc = "connect_loads"
    /\ mongo_conn' = [mongo_conn EXCEPT
                        !.loads_collection =
                            [client |-> mongo_conn.db.client,
                             name |-> mongo_conn.loads_collection_name]]
    /\ Goto(t, "connect_calls")
    /\ UNCHANGED <<build, environ, database, now, last>>

\* connect: self.carriers_calls_collection = self.db[...]; return True
ConnectCalls(t) ==
    /\ call[t].pc = "connect_calls"
    /\ mongo_conn' = [mongo_conn EXCEPT
                        !.carriers_calls_collection =
                            [client |-> mongo_conn.db.client,
                             name |-> mongo_conn.carriers_calls_collection_name]]
    /\ Goto(t, "operation")
    /\ UNCHANGED <<build, environ, database, now, last>>

\* connect: except Exception: if self.client: close it, self.client = None;
\* return False, and the operation returns None
ConnectExcept(t) ==
    /\ call[t].pc = "connect_except"
    /\ mongo_conn' = [mongo_conn EXCEPT !.client = 0]
    /\ ReturnNone(t)
    /\ UNCHANGED <<build, environ, database, now, last>>

\* the carrier-call document the server stores and the result returned
ThreadDoc == ("_id" :> ObjectId(database.next_oid)) @@ ThreadCallData

\* self.loads_collection.find(...) and the loop over the loads, or
\* self.carriers_calls_collection.insert_one(call_data): the field is read
\* again; None has no find or insert_one (AttributeError), and an
\* unreachable server makes the driver raise
Operation(t) ==
    /\ call[t].pc = "operation"
    /\ IF HandleOf(call[t].op) = NoneHandle \/ ~database.up
       THEN Goto(t, "except_client") /\ UNCHANGED database
       ELSE IF call[t].op = "search_loads_by_equipment"
       THEN /\ call' = [call EXCEPT
                          ![t].pc = "done",
                          ![t].loads =
                              render_loads(find_by_equipment(
                                  documents(database, HandleOf(call[t].op).name),
                                  ThreadEquipment))]
            /\ UNCHANGED database
       ELSE /\ database.next_oid <= Len(InitialLoads) + MaxCalls
            /\ call' = [call EXCEPT
                          ![t].pc = "done",
                          ![t].result = [inserted_id |-> str_oid(ObjectId(database.next_oid)),
                                         acknowledged |-> TRUE]]
            /\ database' = [database EXCEPT
                              !.next_oid = @ + 1,
                              !.collections =
                                  (HandleOf(call[t].op).name :>
                                      Append(documents(database, HandleOf(call[t].op).name),
                                             ThreadDoc)) @@ @]
    /\ UNCHANGED <<build, environ, mongo_conn, now, last>>

\* except Exception of the operation: self.client = None
ExceptClient(t) ==
    /\ call[t].pc = "except_client"
    /\ mongo_conn' = [mongo_conn EXCEPT !.client = 0]
    /\ Goto(t, "except_handle")
    /\ UNCHANGED <<build, environ, database, now, last>>

\* except Exception of the operation: self.loads_collection = None (or
\* self.carriers_calls_collection = None); return None
ExceptHandle(t) ==
    /\ call[t].pc = "except_handle"
    /\ mongo_conn' = IF call[t].op = "search_loads_by_equipment"
                     THEN [mongo_conn EXCEPT !.loads_collection = NoneHandle]
                     ELSE [mongo_conn EXCEPT !.carriers_calls_collection = NoneHandle]
    /\ ReturnNone(t)
    /\ UNCHANGED <<build, environ, database, now, last>>

\* the route function has answered; the thread takes its next request
Return(t) ==
    /\ call[t].pc = "done"
    /\ call' = [call EXCEPT ![t] = [Idle EXCEPT !.calls = call[t].calls]]
    /\ UNCHANGED <<build, environ, mongo_conn, database, now, last>>

\* the server becomes unreachable: no call since begun or still to begin
\* before it is back has had it available throughout
ServerDown ==
    /\ database.up
    /\ database' = [database EXCEPT !.up = FALSE]
    /\ call' = [t \in Threads |-> [call[t] EXCEPT !.avail = FALSE]]
    /\ UNCHANGED <<build, environ, mongo_conn, now, last>>

ServerUp ==
    /\ ~database.up
    /\ database' = [database EXCEPT !.up = TRUE]
    /\ UNCHANGED <<build, environ, call, mongo_conn, now, last>>

NextThreads ==
    \/ \E t \in Threads :
          \/ BeginCall(t)
          \/ TruthTest(t)
          \/ ConnectClient(t)
          \/ ConnectDb(t)
          \/ ConnectLoads(t)
          \/ ConnectCalls(t)
          \/ ConnectExcept(t)
          \/ Operation(t)
          \/ ExceptClient(t)
          \/ ExceptHandle(t)
          \/ Return(t)
    \/ ServerDown
    \/ ServerUp

SpecThreads == InitThreads /\ [][NextThreads]_vars

---------------------------------------------------------------------------
(* Properties of the concurrent adapter, checked under SpecThreads *)

\* thread t has returned from a call during which the server was reachable
\* throughout
ReturnedOnAvailable(t) == call[t].pc = "done" /\ call[t].avail

\* what thread t returned is the correct result of its call
CorrectResult(t) ==
    /\ ~call[t].failed
    /\ call[t].op = "search_loads_by_equipment" =>
          call[t].loads = MatchingLoads(Stored(database, "loads"), ThreadEquipment)
    /\ call[t].op = "insert_carrier_call" =>
          \E i \in 1..Len(Stored(database, CallsName)) :
             /\ str_oid(Stored(database, CallsName)[i]["_id"]) = call[t].result.inserted_id
             /\ \A k \in DOMAIN ThreadCallData :
                   Stored(database, CallsName)[i][k] = ThreadCallData[k]

\* C16: with two requests using the shared adapter concurrently and no
\* locking, under every interleaving a call made while the database is
\* available returns its correct result: the failure handling of a
\* concurrent call, which clears the cached client and collection handle,
\* never makes it fail or find the handle cleared between its own cache
\* check and its database operation.
C16_Independent == \A t \in Threads : ReturnedOnAvailable(t) => CorrectResult(t)

=============================================================================
